---- MODULE Spec2Model ----
(***************************************************************************)
(* Message-safety and response-orchestration pipeline of the Teen AI       *)
(* platform: the POST /api/conversations/:conversationId/messages handler  *)
(* (src/src/index.tsx), AIService (src/src/services/aiService.ts) and the  *)
(* DatabaseService writes it performs (src/src/services/databaseService.ts)*)
(*                                                                         *)
(* Texts are sequences of words.  String.prototype.includes and            *)
(* RegExp.prototype.test are modelled on that representation: a keyword or *)
(* a regex alternative is a sequence of words and it matches when it       *)
(* occurs as a contiguous run of words of the (lower-cased) text; a        *)
(* keyword of one word also matches inside a longer word of the vocabulary *)
(* ("friend" inside "girlfriend").                                         *)
(***************************************************************************)
EXTENDS Integers, Sequences, FiniteSets, TLC

NULL == "null"

\* an absent (undefined / null) flag reason; reasons are sequences of strings
NoReason == <<>>

\* ------------------------------------------------------------------------
\* Bounds of the model
\* ------------------------------------------------------------------------
MaxRequests == 2

Procs == {1, 2}

\* ------------------------------------------------------------------------
\* Texts
\* ------------------------------------------------------------------------
\* String.prototype.toLowerCase on one word: the capitalised words of the
\* vocabulary are mapped onto their lower-case spelling.
toLowerCaseWord(w) ==
    CASE w = "I"        -> "i"
      [] w = "Can"      -> "can"
      [] w = "Let's"    -> "let's"
      [] w = "Violence" -> "violence"
      [] w = "Suicide"  -> "suicide"
      [] w = "Drugs"    -> "drugs"
      [] w = "Algebra"  -> "algebra"
      [] w = "Dating"   -> "dating"
      [] OTHER          -> w

toLowerCase(t) == [i \in DOMAIN t |-> toLowerCaseWord(t[i])]

\* the word w has the string k inside it: the words of the vocabulary that
\* have a keyword as a proper part are "girlfriend" and "boyfriend"
contains(w, k) ==
    w = k \/ (k = "friend" /\ w \in {"girlfriend", "boyfriend"})

\* String.prototype.includes(k): k occurs in t (case-sensitive).
includes(t, k) ==
    \E i \in 1..(Len(t) - Len(k) + 1) :
        \A j \in 1..Len(k) :
            IF Len(k) = 1 THEN contains(t[i + j - 1], k[j]) ELSE t[i + j - 1] = k[j]

\* RegExp.prototype.test for a pattern with the /i flag; the pattern is the
\* set of its alternatives.
test(pattern, t) == \E alt \in pattern : includes(toLowerCase(t), alt)

\* index of the first TRUE of hits, 0 if none: hits[i] tells whether the
\* i-th element of a list passes the test of the loop
\* (the "for (const x of list) if (...) return" loops of the classifiers)
FirstMatch(hits) ==
    IF \E i \in DOMAIN hits : hits[i]
    THEN CHOOSE i \in DOMAIN hits : hits[i] /\ \A j \in 1..(i - 1) : ~hits[j]
    ELSE 0

\* ------------------------------------------------------------------------
\* AIService.checkAdvancedContentSafety: pattern tables
\* ------------------------------------------------------------------------
selfHarmPatterns == <<
    { <<a, b>> : a \in {"kill", "hurt", "harm", "cut"}, b \in {"myself", "me"} },
    { <<"suicide">>, <<"suicidal">> },
    { <<"end", "my", "life">>, <<"ending", "my", "life">> },
    { <<"don't", "want", "to", "live">>, <<"want", "to", "die">> },
    { <<"self", "harm">>, <<"selfharm">>, <<"self", "injury">>, <<"selfinjury">> } >>

dangerousPatterns == <<
    { <<"drugs">>, <<"weed">>, <<"marijuana">>, <<"cocaine">>, <<"heroin">>, <<"meth">> },
    { <<"alcohol">>, <<"drinking">>, <<"drunk">>, <<"beer">>, <<"vodka">> },
    { <<"running", "away">>, <<"run", "away", "from", "home">> },
    { <<"meeting", "strangers">>, <<"meet", "someone", "online">> },
    { <<"sexting">>, <<"nudes">>, <<"inappropriate", "photos">> },
    { <<"violence">>, <<"fighting">>, <<"hurting", "others">> } >>

strictPatterns == <<
    { <<"dating">>, <<"boyfriend">>, <<"girlfriend">>, <<"romance">> },
    { <<"body">>, <<"physical", "appearance">>, <<"looks">> },
    { <<"social", "media">>, <<"instagram">>, <<"tiktok">>, <<"snapchat">> } >>

\* pattern.source of each pattern, quoted in the flag reason
selfHarmSources == <<"kill|hurt|harm|cut myself|me", "suicide|suicidal",
                     "end my life|ending my life",
                     "don't want to live|want to die", "self harm|self injury">>

dangerousSources == <<"drugs|weed|marijuana|cocaine|heroin|meth",
                      "alcohol|drinking|drunk|beer|vodka",
                      "running away|run away from home",
                      "meeting strangers|meet someone online",
                      "sexting|nudes|inappropriate photos",
                      "violence|fighting|hurting others">>

strictSources == <<"dating|boyfriend|girlfriend|romance",
                   "body|physical appearance|looks",
                   "social media|instagram|tiktok|snapchat">>

\* ------------------------------------------------------------------------
\* checkContentSafety (index.tsx): keyword tables
\* ------------------------------------------------------------------------
selfHarmKeywords == <<
    <<"kill", "myself">>, <<"suicide">>, <<"end", "my", "life">>,
    <<"hurt", "myself">>, <<"cut", "myself">>, <<"self", "harm">> >>

dangerKeywords == <<
    <<"drugs">>, <<"alcohol">>, <<"running", "away">>,
    <<"meeting", "strangers">>, <<"inappropriate", "content">> >>

\* ------------------------------------------------------------------------
\* The blocked_keywords column: NULL, or a text that JSON.parse decodes to a
\* list of keywords, or a text that JSON.parse rejects.
\* ------------------------------------------------------------------------
JsonText(v)  == [isNull |-> FALSE, ok |-> TRUE,  val |-> v]
JsonInvalid  == [isNull |-> FALSE, ok |-> FALSE, val |-> <<>>]
JsonNull     == [isNull |-> TRUE,  ok |-> FALSE, val |-> <<>>]

\* result of a classification; threw = TRUE stands for the SyntaxError that
\* JSON.parse raises on an undecodable blocked_keywords text
Safe == [threw |-> FALSE, isSafe |-> TRUE, flagReason |-> NoReason, alertType |-> NULL]
Unsafe(reason, type) ==
    [threw |-> FALSE, isSafe |-> FALSE, flagReason |-> reason, alertType |-> type]
Threw == [threw |-> TRUE, isSafe |-> FALSE, flagReason |-> NoReason, alertType |-> NULL]

\* ------------------------------------------------------------------------
\* AIService.checkAdvancedContentSafety
\* ------------------------------------------------------------------------
\* the age-sensitive topic patterns are applied at every filter level
strictStage_anyLevel(content, parentalControls) ==
    LET st == FirstMatch([i \in DOMAIN strictPatterns |-> test(strictPatterns[i], content)])
    IN  IF st # 0
        THEN Unsafe(<<"Strict filter violation", strictSources[st]>>, "inappropriate_content")
        ELSE Safe

strictStage(content, parentalControls) ==
    IF parentalControls.content_filter_level = "strict"
    THEN LET st == FirstMatch([i \in DOMAIN strictPatterns |-> test(strictPatterns[i], content)])
         IN  IF st # 0
             THEN Unsafe(<<"Strict filter violation", strictSources[st]>>, "inappropriate_content")
             ELSE Safe
    ELSE Safe

\* the blocked keywords are looked at before the built-in patterns
checkAdvancedContentSafety_keywordsFirst(content, parentalControls) ==
    LET lowerContent == toLowerCase(content)
        sh == FirstMatch([i \in DOMAIN selfHarmPatterns |-> test(selfHarmPatterns[i], content)])
        dg == FirstMatch([i \in DOMAIN dangerousPatterns |-> test(dangerousPatterns[i], content)])
        bkText == parentalControls.blocked_keywords
        bk == FirstMatch([i \in DOMAIN bkText.val |->
                            includes(lowerContent, toLowerCase(bkText.val[i]))])
    IN  IF ~bkText.isNull /\ ~bkText.ok THEN Threw
        ELSE IF ~bkText.isNull /\ bk # 0
             THEN Unsafe(<<"Blocked keyword detected">> \o bkText.val[bk], "blocked_keyword")
        ELSE IF sh # 0 THEN Unsafe(<<"Self-harm language detected", selfHarmSources[sh]>>, "self_harm")
        ELSE IF dg # 0 THEN Unsafe(<<"Dangerous content detected", dangerousSources[dg]>>, "dangerous_behavior")
        ELSE strictStage(content, parentalControls)

\* a blocked keyword is looked for as it is spelled in the rules
checkAdvancedContentSafety_caseSensitive(content, parentalControls) ==
    LET lowerContent == toLowerCase(content)
        sh == FirstMatch([i \in DOMAIN selfHarmPatterns |-> test(selfHarmPatterns[i], content)])
        dg == FirstMatch([i \in DOMAIN dangerousPatterns |-> test(dangerousPatterns[i], content)])
        bkText == parentalControls.blocked_keywords
        bk == FirstMatch([i \in DOMAIN bkText.val |-> includes(lowerContent, bkText.val[i])])
    IN  IF sh # 0 THEN Unsafe(<<"Self-harm language detected", selfHarmSources[sh]>>, "self_harm")
        ELSE IF dg # 0 THEN Unsafe(<<"Dangerous content detected", dangerousSources[dg]>>, "dangerous_behavior")
        ELSE IF ~bkText.isNull /\ ~bkText.ok THEN Threw
        ELSE IF ~bkText.isNull /\ bk # 0
             THEN Unsafe(<<"Blocked keyword detected">> \o bkText.val[bk], "blocked_keyword")
        ELSE strictStage(content, parentalControls)

checkAdvancedContentSafety(content, parentalControls) ==
    LET lowerContent == toLowerCase(content)
        sh == FirstMatch([i \in DOMAIN selfHarmPatterns |-> test(selfHarmPatterns[i], content)])
        dg == FirstMatch([i \in DOMAIN dangerousPatterns |-> test(dangerousPatterns[i], content)])
        bkText == parentalControls.blocked_keywords
        bk == FirstMatch([i \in DOMAIN bkText.val |->
                            includes(lowerContent, toLowerCase(bkText.val[i]))])
    IN  IF sh # 0 THEN Unsafe(<<"Self-harm language detected", selfHarmSources[sh]>>, "self_harm")
        ELSE IF dg # 0 THEN Unsafe(<<"Dangerous content detected", dangerousSources[dg]>>, "dangerous_behavior")
        ELSE IF ~bkText.isNull /\ ~bkText.ok THEN Threw
        ELSE IF ~bkText.isNull /\ bk # 0
             THEN Unsafe(<<"Blocked keyword detected">> \o bkText.val[bk], "blocked_keyword")
        ELSE strictStage(content, parentalControls)

\* ------------------------------------------------------------------------
\* checkContentSafety (index.tsx)
\* ------------------------------------------------------------------------
checkContentSafety(content, parentalControls) ==
    LET lowerContent == toLowerCase(content)
        sh == FirstMatch([i \in DOMAIN selfHarmKeywords |->
                            includes(lowerContent, selfHarmKeywords[i])])
        dg == FirstMatch([i \in DOMAIN dangerKeywords |->
                            includes(lowerContent, dangerKeywords[i])])
        bkText == parentalControls.blocked_keywords
        bk == FirstMatch([i \in DOMAIN bkText.val |->
                            includes(lowerContent, toLowerCase(bkText.val[i]))])
    IN  IF sh # 0
        THEN Unsafe(<<"Self-harm language detected">> \o selfHarmKeywords[sh], "self_harm")
        ELSE IF dg # 0
        THEN Unsafe(<<"Dangerous content detected">> \o dangerKeywords[dg], "dangerous_behavior")
        ELSE IF ~bkText.isNull /\ ~bkText.ok THEN Threw
        ELSE IF ~bkText.isNull /\ bk # 0
             THEN Unsafe(<<"Blocked keyword detected">> \o bkText.val[bk], "blocked_keyword")
        ELSE Safe

\* ------------------------------------------------------------------------
\* Reply templates (each stands for the fixed text, named by its opening)
\* ------------------------------------------------------------------------
responses ==
    [ self_harm             |-> <<"I notice you might be going through something really difficult right now.">>,
      dangerous_behavior    |-> <<"I want to help you make wise choices that honor God and keep you safe.">>,
      blocked_keyword       |-> <<"This topic isn't something we should discuss right now.">>,
      inappropriate_content |-> <<"Let's keep our conversation focused on things that are pure, lovely, and praiseworthy">> ]

\* the names the object literal 'responses' inherits from Object.prototype
inheritedNames ==
    {"constructor", "toString", "toLocaleString", "valueOf", "hasOwnProperty",
     "isPrototypeOf", "propertyIsEnumerable", "__proto__"}

\* the value of responses[name] for an inherited name: a function of
\* Object.prototype (the prototype itself for "__proto__"), which is truthy
\* and is not a text
inherited(name) == <<"Object.prototype", name>>

\* AIService.generateSafetyResponse: responses[alertType] ||
\* responses.inappropriate_content
generateSafetyResponse(alertType) ==
    IF alertType \in DOMAIN responses
    THEN responses[alertType]
    ELSE IF alertType \in inheritedNames
    THEN inherited(alertType)
    ELSE responses.inappropriate_content

\* the text generateResponse substitutes for an empty completion
apologyText == <<"I apologize, but I encountered an error.">>

\* AIService.generateFallbackResponse
generateFallbackResponse(message) ==
    LET lowerMessage == toLowerCase(message)
        has(w) == includes(lowerMessage, <<w>>)
    IN  IF has("math") \/ has("homework") \/ has("study")
        THEN <<"I'd be happy to help you with your studies!">>
        ELSE IF has("bible") \/ has("god") \/ has("jesus") \/ has("faith")
        THEN <<"That's a wonderful question about faith!">>
        ELSE IF has("advice") \/ has("help") \/ has("problem")
        THEN <<"I'm here to help! Life can be challenging">>
        ELSE <<"I understand you're looking for guidance.">>

\* generateEnhancedFallback (index.tsx)
generateEnhancedFallback(content, isFlagged) ==
    LET lowerContent == toLowerCase(content)
        has(w) == includes(lowerContent, <<w>>)
    IN  IF isFlagged
        THEN <<"I notice you might be going through something difficult.">>
        ELSE IF has("math") \/ has("algebra") \/ has("homework")
        THEN <<"I'd love to help you with your math studies!">>
        ELSE IF has("bible") \/ has("god") \/ has("jesus") \/ has("faith")
        THEN <<"What a wonderful question about faith!">>
        ELSE IF has("friend") \/ has("relationship") \/ has("social")
        THEN <<"Relationships and friendships are such an important part of life">>
        ELSE IF has("science") \/ has("nature") \/ has("creation")
        THEN <<"Science is amazing">>
        ELSE <<"I'm here to help you grow in wisdom and knowledge">>

\* ------------------------------------------------------------------------
\* AIService.generateResponse, as a function of what the completion call
\* does.  outcome.kind: "ok" (2xx status, body decoded, outcome.content is
\* choices[0].message.content, <<>> when it is empty or missing),
\* "http_error" (response.ok false), "network_error" (fetch rejects),
\* "bad_body" (response.json() rejects or the body has no choices).
\* ------------------------------------------------------------------------
AIResponse(content, isSafe, flagReason, alertType) ==
    [threw |-> FALSE, content |-> content, isSafe |-> isSafe,
     flagReason |-> flagReason, alertType |-> alertType]

\* the message of the error a failed call raises inside generateResponse:
\* the Error thrown on a non-2xx status, the TypeError of a rejected fetch,
\* the SyntaxError or TypeError of a body that cannot be read
upstreamError(outcome) ==
    CASE outcome.kind = "http_error"    -> <<"OpenAI API error: 500">>
      [] outcome.kind = "network_error" -> <<"fetch failed">>
      [] outcome.kind = "bad_body"      -> <<"Unexpected token in JSON">>
      [] OTHER                          -> <<>>

\* lines 41-50: the input check, before the call
generateResponseInput(message, parentalControls) ==
    checkAdvancedContentSafety(message, parentalControls)

\* the call is issued for every input
inputRejected_never(safetyCheck) == FALSE

\* line 43: an unsafe input is answered without the completion call
inputRejected(safetyCheck) == ~safetyCheck.isSafe

\* the completion is returned as it came
generateResponseOutput_unscreened(message, parentalControls, outcome) ==
    IF outcome.kind = "ok"
    THEN AIResponse(IF outcome.content # <<>> THEN outcome.content ELSE apologyText,
                    TRUE, NoReason, NULL)
    ELSE AIResponse(generateFallbackResponse(message), TRUE, NoReason, NULL)

\* the completion is screened but goes out as it came, empty when it is
\* empty, and a failed call is answered with the message of its error
generateResponseOutput_rawOutcome(message, parentalControls, outcome) ==
    IF outcome.kind = "ok"
    THEN LET responseCheck == checkAdvancedContentSafety(outcome.content, parentalControls)
         IN  AIResponse(IF responseCheck.isSafe
                           THEN outcome.content
                           ELSE generateSafetyResponse("inappropriate_content"),
                        responseCheck.isSafe, responseCheck.flagReason,
                        responseCheck.alertType)
    ELSE AIResponse(upstreamError(outcome), TRUE, NoReason, NULL)

\* lines 82-105: after the call has settled
generateResponseOutput(message, parentalControls, outcome) ==
    IF outcome.kind = "ok"
    THEN LET aiContent == IF outcome.content # <<>> THEN outcome.content ELSE apologyText
             responseCheck == checkAdvancedContentSafety(aiContent, parentalControls)
         IN  IF responseCheck.threw
             THEN AIResponse(generateFallbackResponse(message), TRUE, NoReason, NULL)
             ELSE AIResponse(IF responseCheck.isSafe
                                THEN aiContent
                                ELSE generateSafetyResponse("inappropriate_content"),
                             responseCheck.isSafe,
                             responseCheck.flagReason,
                             responseCheck.alertType)
    ELSE AIResponse(generateFallbackResponse(message), TRUE, NoReason, NULL)

\* ------------------------------------------------------------------------
\* Inputs
\* ------------------------------------------------------------------------
\* the message texts a teen may send
Texts ==
    { <<"I", "want", "to", "kill", "myself">>,
      <<"Let's", "talk", "about", "violence", "in", "movies">>,
      <<"my", "girlfriend", "likes", "movies">>,
      <<"Can", "you", "help", "me", "with", "algebra", "homework">> }

\* what the completion call may do
Outcomes ==
    { [kind |-> "ok", content |-> c] :
         c \in { <<"Algebra", "is", "fun">>, <<"try", "drugs">>, <<>> } }
    \cup { [kind |-> k, content |-> <<>>] :
              k \in {"http_error", "network_error", "bad_body"} }

\* rows of parental_controls for the teen
GuardRules(level, blocked, alerts) ==
    [present |-> TRUE, content_filter_level |-> level,
     blocked_keywords |-> blocked, safety_alerts_enabled |-> alerts]

\* getParentalControlsByTeen finds no row
NoControls == [present |-> FALSE, content_filter_level |-> NULL,
               blocked_keywords |-> JsonNull, safety_alerts_enabled |-> FALSE]

BlockedList == << <<"Violence">>, <<"movies">> >>

\* the keyword of the documented scenario, as a parent types it
ViolenceList == << <<"violence">>, <<"movies">> >>

GuardRuleSet ==
    { GuardRules("strict",   JsonText(<< <<"Violence">> >>), TRUE),
      GuardRules("basic",    JsonText(ViolenceList), FALSE),
      GuardRules("moderate", JsonNull,              TRUE),
      GuardRules("strict",   JsonInvalid,           TRUE) }

\* ------------------------------------------------------------------------
\* State
\* ------------------------------------------------------------------------
VARIABLES
    messages,           \* rows of the messages table, in insertion order
    safety_alerts,      \* rows of the safety_alerts table, in insertion order
    updated_at,         \* conversations.updated_at of the conversation
    parental_controls,  \* the teen's parental_controls row
    OPENAI_API_KEY,     \* env.OPENAI_API_KEY is set
    parent_id,          \* user.parent_id of the teen
    started,            \* requests accepted so far
    req,                \* per request in flight: the handler's locals
    probe               \* a text and rules handed to the two classifiers

vars == <<messages, safety_alerts, updated_at, parental_controls,
          OPENAI_API_KEY, parent_id, started, req, probe>>

conversationId == "conv_1"

NoOutcome == [kind |-> "none", content |-> <<>>]

IdleReq ==
    [pc |-> "idle", n |-> 0, content |-> <<>>, parentalControls |-> NoControls,
     conversationHistory |-> <<>>, messageId |-> 0, aiMessageId |-> 0,
     alertId |-> 0, aiResponse |-> <<>>, isFlagged |-> FALSE,
     flagReason |-> NoReason, alertType |-> NULL,
     safetyCheck |-> Safe, outcome |-> NoOutcome,
     fetchCalls |-> 0, alertCalls |-> 0, status |-> 0]

\* no classification has been asked for outside the handler
NoResult == [threw |-> FALSE, isSafe |-> TRUE, flagReason |-> NoReason,
             alertType |-> "unset"]

\* ------------------------------------------------------------------------
\* AIService.buildSystemPrompt.  A prompt is a sequence of lines, a line a
\* sequence of pieces of text; the comma-separated personality_traits
\* column is the sequence of its labels and commas.
\* ------------------------------------------------------------------------
\* String.prototype.split(','): the pieces between the commas
RECURSIVE split(_)
split(s) ==
    IF \E i \in DOMAIN s : s[i] = ","
    THEN LET i == CHOOSE k \in DOMAIN s : s[k] = "," /\ \A j \in 1..(k - 1) : s[j] # ","
         IN  <<SubSeq(s, 1, i - 1)>> \o split(SubSeq(s, i + 1, Len(s)))
    ELSE <<s>>

\* Array.prototype.join(', ')
RECURSIVE join(_)
join(pieces) ==
    IF pieces = <<>> THEN <<>>
    ELSE IF Len(pieces) = 1 THEN pieces[1]
    ELSE pieces[1] \o <<", ">> \o join(Tail(pieces))

\* JSON.parse(text || fallback): the decoded value, the fallback for a NULL
\* column; ok is FALSE when JSON.parse throws
parseOr(text, fallback) ==
    IF text.isNull THEN [ok |-> TRUE, val |-> fallback]
    ELSE [ok |-> text.ok, val |-> text.val]

\* theologicalValues[flag] === value
flagIs(theologicalValues, flag, value) ==
    flag \in DOMAIN theologicalValues /\ theologicalValues[flag] = value

\* a clause is emitted for every entry that is truthy
valueClauses_truthy(theologicalValues) ==
    (IF "biblical_authority" \in DOMAIN theologicalValues
           /\ theologicalValues["biblical_authority"] # ""
        THEN << <<"- You hold the Bible as the ultimate authority for faith and life.">> >>
        ELSE <<>>)
    \o (IF "creation_vs_evolution" \in DOMAIN theologicalValues
           /\ theologicalValues["creation_vs_evolution"] # ""
        THEN << <<"- You believe in young earth creationism and God's direct creation of all things.">> >>
        ELSE <<>>)
    \o (IF "moral_framework" \in DOMAIN theologicalValues
           /\ theologicalValues["moral_framework"] # ""
        THEN << <<"- Your moral guidance is rooted in biblical principles and Christ-like character.">> >>
        ELSE <<>>)

\* lines 117-127: the clauses of the theological values
valueClauses(theologicalValues) ==
    (IF flagIs(theologicalValues, "biblical_authority", "high")
        THEN << <<"- You hold the Bible as the ultimate authority for faith and life.">> >>
        ELSE <<>>)
    \o (IF flagIs(theologicalValues, "creation_vs_evolution", "young_earth_creationism")
        THEN << <<"- You believe in young earth creationism and God's direct creation of all things.">> >>
        ELSE <<>>)
    \o (IF flagIs(theologicalValues, "moral_framework", "biblical")
        THEN << <<"- Your moral guidance is rooted in biblical principles and Christ-like character.">> >>
        ELSE <<>>)

\* lines 129-135: the content guidelines
contentGuidelines ==
    << <<>>,
       <<"CONTENT GUIDELINES:">>,
       <<"- Keep responses appropriate for teens aged 13-18">>,
       <<"- Always point toward biblical wisdom and godly character">>,
       <<"- Encourage academic excellence while showing grace">>,
       <<"- If asked about sensitive topics, redirect toward positive discussions">>,
       <<"- Never provide information that could be harmful or dangerous">> >>

\* lines 137-139: the approved topics
topicsLine(allowedTopics) ==
    IF Len(allowedTopics) > 0
    THEN << <<"- Focus on these approved topics:">> \o join(allowedTopics) >>
    ELSE <<>>

\* lines 141-143: the personality traits
personalityLines(personality_traits) ==
    << <<>>,
       <<"PERSONALITY: Be">> \o join(split(personality_traits))
           \o <<"in all interactions.">> >>

\* line 145
rememberLines ==
    << <<>>, <<"REMEMBER: You are a Christian mentor helping a teenager grow">> >>

\* a prompt, or the exception of a JSON.parse that failed
Prompt(lines) == [built |-> TRUE, threw |-> FALSE, lines |-> lines]
PromptThrew == [built |-> TRUE, threw |-> TRUE, lines |-> <<>>]
NoPrompt == [built |-> FALSE, threw |-> FALSE, lines |-> <<>>]

\* the columns of a custom_gpts row that the prompt is built from
NoPersona == [system_prompt |-> <<>>, theological_values |-> JsonNull,
              personality_traits |-> <<>>]

\* the columns of a parental_controls row that the prompt is built from
NoPromptRules == [theological_perspective |-> "", allowed_topics |-> JsonNull]

\* no entry at all, the result of JSON.parse('{}')
NoValues == [flag \in {} |-> ""]

\* theological_values texts: those of the seed rows gpt_1 and gpt_2, known
\* flags with other truthy values, a known flag with a falsy value, a NULL
\* column and a text that JSON.parse rejects
ValueTexts ==
    { JsonText([biblical_authority |-> "high",
                creation_vs_evolution |-> "young_earth_creationism",
                moral_framework |-> "biblical", life_purpose |-> "glorify_god"]),
      JsonText([academic_excellence |-> "high", work_ethic |-> "biblical",
                integrity |-> "absolute"]),
      JsonText([biblical_authority |-> "moderate",
                creation_vs_evolution |-> "theistic_evolution",
                moral_framework |-> "biblical"]),
      JsonText([biblical_authority |-> "", moral_framework |-> "biblical"]),
      JsonText(NoValues),
      JsonNull,
      JsonInvalid }

TraitTexts ==
    { <<"encouraging", ",", "wise", ",", "patient", ",", "christ_centered">>,
      <<"helpful">>,
      <<>> }

Personas ==
    { [system_prompt |-> <<"You are a Christian AI tutor designed to help teenagers grow">>,
       theological_values |-> tv, personality_traits |-> pt] :
         tv \in ValueTexts, pt \in TraitTexts }

TopicTexts ==
    { JsonText(<< <<"bible-study">>, <<"school-help">>, <<"life-advice">> >>),
      JsonText(<< <<"science">> >>),
      JsonText(<<>>),
      JsonNull,
      JsonInvalid }

PromptRules ==
    { [theological_perspective |-> tp, allowed_topics |-> at] :
         tp \in {"conservative-christian", "reformed"}, at \in TopicTexts }

\* ------------------------------------------------------------------------
\* The chat client (TeenAIApp.sendMessage and VoiceMode)
\* ------------------------------------------------------------------------
\* the messages a user submits in one session of the chat view
MaxSends == 3
Sends == 1..MaxSends

\* entries of currentConversation.messages: the temporary entry pushed
\* before the call, and the server's versions of the two messages
TempEntry(s) == [role |-> "user", temporary |-> TRUE, send |-> s]
UserEntry(s) == [role |-> "user", temporary |-> FALSE, send |-> s]
AssistantEntry(s) == [role |-> "assistant", temporary |-> FALSE, send |-> s]

\* Array.prototype.pop: the list without its last entry, an empty list as is
pop(list) == IF list = <<>> THEN <<>> ELSE SubSeq(list, 1, Len(list) - 1)

\* a sendMessage call: not made, awaiting apiCall, or settled either way;
\* byVoice records how its content was submitted
NotSent == [state |-> "none", byVoice |-> FALSE]
InFlight(byVoice) == [state |-> "awaiting", byVoice |-> byVoice]

\* the client after the chat view is opened on a new conversation
NoClient == [messages |-> <<>>, sends |-> [s \in Sends |-> NotSent],
             shouldSpeak |-> FALSE, isRecording |-> FALSE,
             synthesis |-> FALSE, spoken |-> {}]

\* ------------------------------------------------------------------------
\* The recent history of a conversation (messages.created_at and
\* getRecentMessagesByConversation)
\* ------------------------------------------------------------------------
\* rows written and seconds elapsed while the history is looked at
MaxRows == 12
MaxSeconds == 2

\* the limit passed to getRecentMessagesByConversation (index.tsx line 541)
\* and the length of the slice sent (aiService.ts line 59)
HistoryLimit == 10

\* a row of the messages table: rowid is its place in insertion order,
\* created_at the CURRENT_TIMESTAMP of its INSERT, in whole seconds
MessageRow(rowid, role, created_at) ==
    [rowid |-> rowid, role |-> role, created_at |-> created_at]

\* ORDER BY created_at DESC: row a comes before row b.  SQL leaves the
\* order of rows with equal created_at to the database; ties is the order
\* its query plan happens to give them, by rowid
comesBefore(a, b, ties) ==
    \/ a.created_at > b.created_at
    \/ /\ a.created_at = b.created_at
       /\ IF ties = "descending" THEN a.rowid > b.rowid ELSE a.rowid < b.rowid

\* SELECT * FROM messages WHERE conversation_id = ? ORDER BY created_at
\* DESC LIMIT ?, over rows of one conversation
selectRecent(rows, limit, ties) ==
    LET n == Len(rows)
        k == IF n < limit THEN n ELSE limit
        rank(i) == Cardinality({j \in 1..n : comesBefore(rows[j], rows[i], ties)}) + 1
    IN  [p \in 1..k |-> rows[CHOOSE i \in 1..n : rank(i) = p]]

\* Array.prototype.slice(-count)
sliceLast(list, count) ==
    IF Len(list) <= count THEN list
    ELSE SubSeq(list, Len(list) - count + 1, Len(list))

\* nothing read yet
NoWindow == [rows |-> <<>>, now |-> 0, read |-> FALSE, handled |-> 0,
             conversationHistory |-> <<>>, sent |-> <<>>, called |-> FALSE]

\* no reply has been asked for outside the handler
NoReply == <<>>

NoProbe == [content |-> <<>>, parentalControls |-> NoControls,
            advanced |-> NoResult, simple |-> NoResult,
            fallback |-> NoReply, enhanced |-> NoReply,
            category |-> NULL, template |-> NoReply, answer |-> NoReply,
            customGPT |-> NoPersona, promptRules |-> NoPromptRules,
            prompt |-> NoPrompt, promptAgain |-> NoPrompt,
            client |-> NoClient, window |-> NoWindow]

Init ==
    /\ messages = <<>>
    /\ safety_alerts = <<>>
    /\ updated_at = 0
    /\ parental_controls \in GuardRuleSet \cup {NoControls}
    /\ OPENAI_API_KEY \in BOOLEAN
    /\ parent_id \in {"parent_1", NULL}
    /\ started = 0
    /\ req = [p \in Procs |-> IdleReq]
    /\ probe = NoProbe

\* the identifier is derived from the number of rows stored so far
generateId_fromRowCount(n, k) == Len(messages) + k

\* generateId: a fresh identifier; the k-th id drawn by the n-th request
\* (1 the user message, 2 the alert, 3 the assistant message)
generateId(n, k) == 3 * (n - 1) + k

\* DatabaseService.getRecentMessagesByConversation(conversationId, limit):
\* the newest rows first
getRecentMessagesByConversation(limit) ==
    LET n == Len(messages)
        k == IF n < limit THEN n ELSE limit
    IN  [i \in 1..k |-> messages[n - i + 1]]

reverse(s) == [i \in 1..Len(s) |-> s[Len(s) - i + 1]]

\* the row takes the place of the newest row of the conversation
createMessage_overwrites(id, role, content, isFlagged, flagReason) ==
    LET row == [id |-> id, conversation_id |-> conversationId, role |-> role,
                content |-> content, is_flagged |-> isFlagged,
                flag_reason |-> flagReason]
    IN  IF messages = <<>>
        THEN <<row>>
        ELSE [messages EXCEPT ![Len(messages)] = row]

\* DatabaseService.createMessage: the row INSERTed
createMessage(id, role, content, isFlagged, flagReason) ==
    Append(messages,
           [id |-> id, conversation_id |-> conversationId, role |-> role,
            content |-> content, is_flagged |-> isFlagged,
            flag_reason |-> flagReason])

\* the alert row is written twice
createSafetyAlert_twice(id, parentId, messageId, alertType, alertReason) ==
    LET row == [id |-> id, parent_id |-> parentId, conversation_id |-> conversationId,
                message_id |-> messageId, alert_type |-> alertType,
                alert_reason |-> alertReason, is_read |-> FALSE]
    IN  safety_alerts \o <<row, row>>

\* DatabaseService.createSafetyAlert: the row INSERTed
createSafetyAlert(id, parentId, messageId, alertType, alertReason) ==
    Append(safety_alerts,
           [id |-> id, parent_id |-> parentId, conversation_id |-> conversationId,
            message_id |-> messageId, alert_type |-> alertType,
            alert_reason |-> alertReason, is_read |-> FALSE])

\* the alert is sent whatever safety_alerts_enabled says
alertDue_ignoresSetting(isFlagged, parentalControls) ==
    isFlagged /\ parent_id # NULL

\* line 589: the guard of the safety alert
alertDue(isFlagged, parentalControls) ==
    isFlagged /\ parentalControls.safety_alerts_enabled /\ parent_id # NULL

\* the next await of the handler once aiResponse is known
afterGenerate(isFlagged, parentalControls) ==
    IF alertDue(isFlagged, parentalControls) THEN "alert" ELSE "saveUser"

\* ------------------------------------------------------------------------
\* POST /api/conversations/:conversationId/messages, one action per await
\* ------------------------------------------------------------------------
\* the handler answers: status 200 carries userMessage {id, content,
\* isFlagged} and aiMessage {id, content} built from the locals, which the
\* record of the finished turn keeps; 400 and 500 carry only an error text
Respond(p, code) ==
    LET r == req[p] IN
    [req EXCEPT ![p] =
        IF code = 200
        THEN [r EXCEPT !.pc = "done", !.status = 200, !.conversationHistory = <<>>]
        ELSE [IdleReq EXCEPT !.pc = IF code = 400 THEN "refused" ELSE "error",
                             !.status = code, !.n = r.n]]

\* a request is being handled in slot p
Busy(p) == req[p].pc \notin {"idle", "done", "error", "refused"}

\* lines 505-545: the request is accepted (in the first free slot), parental controls and the recent
\* history are read, the id of the user message is drawn
Begin(p) ==
    /\ ~Busy(p)
    /\ \A q \in Procs : q < p => Busy(q)
    /\ started < MaxRequests
    /\ started' = started + 1
    /\ \E content \in Texts :
          IF ~parental_controls.present
          THEN /\ req' = [req EXCEPT ![p] = [IdleReq EXCEPT !.pc = "refused",
                                                            !.n = started + 1,
                                                            !.status = 400]]
          ELSE /\ req' = [req EXCEPT ![p] =
                     [IdleReq EXCEPT
                         !.pc = "generate",
                         !.n = started + 1,
                         !.content = content,
                         !.parentalControls = parental_controls,
                         !.conversationHistory =
                             reverse(getRecentMessagesByConversation(10)),
                         !.messageId = generateId(started + 1, 1)]]
    /\ UNCHANGED <<messages, safety_alerts, updated_at, parental_controls,
                   OPENAI_API_KEY, parent_id, probe>>

\* the handler's locals once an AIResponse is in hand (lines 570-573)
withAiResult(r, aiResult) ==
    [r EXCEPT !.aiResponse = aiResult.content,
              !.isFlagged = ~aiResult.isSafe,
              !.flagReason = aiResult.flagReason,
              !.alertType = aiResult.alertType,
              !.pc = afterGenerate(~aiResult.isSafe, r.parentalControls)]

\* lines 554-586 up to the first await that can suspend: with a key, the
\* input check of AIService.generateResponse and, for a safe input, the
\* completion call being issued; without a key, checkContentSafety and
\* generateEnhancedFallback
Generate(p) ==
    /\ req[p].pc = "generate"
    /\ LET r == req[p] IN
       IF OPENAI_API_KEY
       THEN LET safetyCheck == generateResponseInput(r.content, r.parentalControls)
            IN  IF safetyCheck.threw
                THEN req' = Respond(p, 500)
                ELSE IF inputRejected(safetyCheck)
                THEN req' = [req EXCEPT ![p] =
                        withAiResult([r EXCEPT !.safetyCheck = safetyCheck],
                                     AIResponse(generateSafetyResponse(safetyCheck.alertType),
                                                FALSE, safetyCheck.flagReason,
                                                safetyCheck.alertType))]
                ELSE req' = [req EXCEPT ![p].safetyCheck = safetyCheck,
                                        ![p].fetchCalls = r.fetchCalls + 1,
                                        ![p].pc = "fetch"]
       ELSE LET safetyCheck == checkContentSafety(r.content, r.parentalControls)
            IN  IF safetyCheck.threw
                THEN req' = Respond(p, 500)
                ELSE req' = [req EXCEPT ![p] =
                        [r EXCEPT !.safetyCheck = safetyCheck,
                                  !.isFlagged = ~safetyCheck.isSafe,
                                  !.flagReason = safetyCheck.flagReason,
                                  !.alertType = safetyCheck.alertType,
                                  !.aiResponse =
                                      generateEnhancedFallback(r.content, ~safetyCheck.isSafe),
                                  !.pc = afterGenerate(~safetyCheck.isSafe,
                                                       r.parentalControls)]]
    /\ UNCHANGED <<messages, safety_alerts, updated_at, parental_controls,
                   OPENAI_API_KEY, parent_id, started, probe>>

\* what is left of the call once it has settled: the text of a completion,
\* or no more than the fact of a failure (the catch logs the error and
\* drops it)
settled(outcome) ==
    IF outcome.kind = "ok" THEN outcome ELSE [kind |-> "failed", content |-> <<>>]

\* a call that failed is issued once more
FetchSettles_retries(p) ==
    /\ req[p].pc = "fetch"
    /\ \E outcome \in Outcomes :
          IF outcome.kind # "ok" /\ req[p].fetchCalls < 2
          THEN req' = [req EXCEPT ![p].fetchCalls = req[p].fetchCalls + 1]
          ELSE req' = [req EXCEPT ![p] =
                    withAiResult([req[p] EXCEPT !.outcome = settled(outcome)],
                                 generateResponseOutput(req[p].content,
                                                        req[p].parentalControls,
                                                        outcome))]
    /\ UNCHANGED <<messages, safety_alerts, updated_at, parental_controls,
                   OPENAI_API_KEY, parent_id, started, probe>>

\* the completion call settles (aiService.ts lines 66-105)
FetchSettles(p) ==
    /\ req[p].pc = "fetch"
    /\ \E outcome \in Outcomes :
          req' = [req EXCEPT ![p] =
                    withAiResult([req[p] EXCEPT !.outcome = settled(outcome)],
                                 generateResponseOutput(req[p].content,
                                                        req[p].parentalControls,
                                                        outcome))]
    /\ UNCHANGED <<messages, safety_alerts, updated_at, parental_controls,
                   OPENAI_API_KEY, parent_id, started, probe>>

\* lines 588-600: the safety alert is written
SendAlert(p) ==
    /\ req[p].pc = "alert"
    /\ LET r == req[p] IN
       /\ safety_alerts' = createSafetyAlert(generateId(r.n, 2), parent_id, r.messageId,
                                             r.alertType, r.flagReason)
       /\ req' = [req EXCEPT ![p].alertId = generateId(r.n, 2),
                             ![p].alertCalls = r.alertCalls + 1,
                             ![p].pc = "saveUser"]
    /\ UNCHANGED <<messages, updated_at, parental_controls,
                   OPENAI_API_KEY, parent_id, started, probe>>

\* lines 602-610: the user message is written
SaveUserMessage(p) ==
    /\ req[p].pc = "saveUser"
    /\ LET r == req[p] IN
       messages' = createMessage(r.messageId, "user", r.content,
                                 r.isFlagged, r.flagReason)
    /\ req' = [req EXCEPT ![p].pc = "saveAi"]
    /\ UNCHANGED <<safety_alerts, updated_at, parental_controls,
                   OPENAI_API_KEY, parent_id, started, probe>>

\* lines 612-619: the assistant message is written
SaveAiMessage(p) ==
    /\ req[p].pc = "saveAi"
    /\ LET r == req[p] IN
       messages' = createMessage(generateId(r.n, 3), "assistant", r.aiResponse,
                                 FALSE, NoReason)
    /\ req' = [req EXCEPT ![p].aiMessageId = generateId(req[p].n, 3),
                          ![p].pc = "touch"]
    /\ UNCHANGED <<safety_alerts, updated_at, parental_controls,
                   OPENAI_API_KEY, parent_id, started, probe>>

\* lines 621-628: the conversation is touched and the answer is sent
Touch(p) ==
    /\ req[p].pc = "touch"
    /\ updated_at' = updated_at + 1
    /\ req' = Respond(p, 200)
    /\ UNCHANGED <<messages, safety_alerts, parental_controls,
                   OPENAI_API_KEY, parent_id, started, probe>>

\* a write of the store that throws is passed over and the turn is
\* answered as a success
DbFails_swallowed(p) ==
    /\ req[p].pc \in {"alert", "saveUser", "saveAi", "touch"}
    /\ req' = Respond(p, 200)
    /\ UNCHANGED <<messages, safety_alerts, updated_at, parental_controls,
                   OPENAI_API_KEY, parent_id, started, probe>>

\* lines 630-633: a write of the store throws; the catch answers 500 and
\* leaves what was written
DbFails(p) ==
    /\ req[p].pc \in {"alert", "saveUser", "saveAi", "touch"}
    /\ req' = Respond(p, 500)
    /\ UNCHANGED <<messages, safety_alerts, updated_at, parental_controls,
                   OPENAI_API_KEY, parent_id, started, probe>>

\* POST /api/safety-alerts/:alertId/mark-read (DatabaseService.markAlertAsRead)
markAlertAsRead(alertId, parentId) ==
    [i \in DOMAIN safety_alerts |->
        IF safety_alerts[i].id = alertId /\ safety_alerts[i].parent_id = parentId
        THEN [safety_alerts[i] EXCEPT !.is_read = TRUE]
        ELSE safety_alerts[i]]

MarkRead ==
    /\ \E i \in DOMAIN safety_alerts :
          /\ ~safety_alerts[i].is_read
          /\ safety_alerts' = markAlertAsRead(safety_alerts[i].id, "parent_1")
    /\ UNCHANGED <<messages, updated_at, parental_controls, OPENAI_API_KEY,
                   parent_id, started, req, probe>>

Next ==
    \/ \E p \in Procs : Begin(p)
    \/ \E p \in Procs : Generate(p)
    \/ \E p \in Procs : FetchSettles(p)
    \/ \E p \in Procs : SendAlert(p)
    \/ \E p \in Procs : SaveUserMessage(p)
    \/ \E p \in Procs : SaveAiMessage(p)
    \/ \E p \in Procs : Touch(p)
    \/ \E p \in Procs : DbFails(p)
    \/ MarkRead

Spec == Init /\ [][Next]_vars

\* the transport settles every call it was handed: the promise of fetch is
\* fulfilled or rejected (aiService.ts line 66)
CallsSettle == \A p \in Procs : WF_vars(FetchSettles(p))

\* the turns of a teen who has a parent, under the rules row of the seed
\* data (strict level, a keyword list, alerts enabled), with and without a
\* key
InitCalls ==
    /\ Init
    /\ parent_id = "parent_1"
    /\ parental_controls.blocked_keywords.ok
    /\ parental_controls.safety_alerts_enabled

SpecCallsSettle == InitCalls /\ [][Next]_vars /\ CallsSettle

\* ------------------------------------------------------------------------
\* The classifiers on their own: a text and a parental_controls row are
\* drawn and each classifier is applied to them
\* ------------------------------------------------------------------------
ClassifyTexts ==
    Texts \cup
    { <<"i", "want", "to", "kill", "myself", "in", "movies">>,
      <<"Suicide", "and", "Violence">>,
      <<"i", "want", "to", "die">>,
      <<"Drugs", "in", "movies">>,
      <<"Dating", "and", "Drugs">>,
      <<"my", "looks", "and", "suicide">>,
      <<"Violence">>,
      <<"Dating", "tips">>,
      <<"hello">> }

ClassifyRules ==
    { GuardRules(level, blocked, TRUE) :
        level \in {"strict", "moderate", "basic"},
        blocked \in { JsonNull, JsonInvalid, JsonText(<<>>), JsonText(BlockedList),
                      JsonText(<< <<"suicide">>, <<"girlfriend">> >>),
                      JsonText(<< <<"Algebra">>, <<"dating">> >>) } }

InitClassify ==
    /\ messages = <<>>
    /\ safety_alerts = <<>>
    /\ updated_at = 0
    /\ parental_controls = NoControls
    /\ OPENAI_API_KEY = FALSE
    /\ parent_id = NULL
    /\ started = 0
    /\ req = [p \in Procs |-> IdleReq]
    /\ \E content \in ClassifyTexts, parentalControls \in ClassifyRules :
          probe = [NoProbe EXCEPT !.content = content,
                                  !.parentalControls = parentalControls]

ApplyAdvanced ==
    /\ probe.advanced = NoResult
    /\ probe' = [probe EXCEPT !.advanced =
                    checkAdvancedContentSafety(probe.content, probe.parentalControls)]
    /\ UNCHANGED <<messages, safety_alerts, updated_at, parental_controls,
                   OPENAI_API_KEY, parent_id, started, req>>

ApplySimple ==
    /\ probe.simple = NoResult
    /\ probe' = [probe EXCEPT !.simple =
                    checkContentSafety(probe.content, probe.parentalControls)]
    /\ UNCHANGED <<messages, safety_alerts, updated_at, parental_controls,
                   OPENAI_API_KEY, parent_id, started, req>>

NextClassify == ApplyAdvanced \/ ApplySimple

SpecClassify == InitClassify /\ [][NextClassify]_vars

\* ------------------------------------------------------------------------
\* The two local generators on their own: a text and a parental_controls
\* row are drawn; the text is answered as the handler answers it when the
\* completion call fails, and as it answers it without a key
\* ------------------------------------------------------------------------
FallbackTexts ==
    { <<"Can", "you", "help", "me", "with", "algebra", "homework">>,
      <<"Algebra", "is", "hard">>,
      <<"help", "me", "with", "science">>,
      <<"my", "friend", "reads", "the", "bible">>,
      <<"my", "friend", "is", "sad">>,
      <<"I", "study", "nature">>,
      <<"math", "and", "faith">>,
      <<"my", "girlfriend", "likes", "movies">>,
      <<"hello">> }

InitFallback ==
    /\ messages = <<>>
    /\ safety_alerts = <<>>
    /\ updated_at = 0
    /\ parental_controls = NoControls
    /\ OPENAI_API_KEY = FALSE
    /\ parent_id = NULL
    /\ started = 0
    /\ req = [p \in Procs |-> IdleReq]
    /\ \E content \in FallbackTexts, parentalControls \in ClassifyRules :
          probe = [NoProbe EXCEPT !.content = content,
                                  !.parentalControls = parentalControls]

\* with a key (index.tsx lines 554-573): generateResponse passes the input
\* and the completion call fails
ReplyAfterFailedCall ==
    /\ probe.fallback = NoReply
    /\ LET safetyCheck == generateResponseInput(probe.content, probe.parentalControls)
       IN  /\ ~safetyCheck.threw
           /\ ~inputRejected(safetyCheck)
    /\ \E outcome \in Outcomes :
          /\ outcome.kind # "ok"
          /\ probe' = [probe EXCEPT !.fallback =
                          generateResponseOutput(probe.content, probe.parentalControls,
                                                 outcome).content]
    /\ UNCHANGED <<messages, safety_alerts, updated_at, parental_controls,
                   OPENAI_API_KEY, parent_id, started, req>>

\* without a key (index.tsx lines 574-586)
ReplyWithoutKey ==
    /\ probe.enhanced = NoReply
    /\ LET safetyCheck == checkContentSafety(probe.content, probe.parentalControls)
       IN  /\ ~safetyCheck.threw
           /\ probe' = [probe EXCEPT !.simple = safetyCheck,
                                     !.enhanced =
                                         generateEnhancedFallback(probe.content,
                                                                  ~safetyCheck.isSafe)]
    /\ UNCHANGED <<messages, safety_alerts, updated_at, parental_controls,
                   OPENAI_API_KEY, parent_id, started, req>>

NextFallback == ReplyAfterFailedCall \/ ReplyWithoutKey

SpecFallback == InitFallback /\ [][NextFallback]_vars

\* ------------------------------------------------------------------------
\* The template lookup on its own: a category string is drawn and looked
\* up; a text and a parental_controls row are drawn, the text is
\* classified and, when unsafe, answered with the template of its category
\* ------------------------------------------------------------------------
\* NULL stands for an alertType that is undefined
CategoryStrings ==
    {"self_harm", "dangerous_behavior", "blocked_keyword", "inappropriate_content",
     "profanity", "", NULL, "constructor", "toString"}

InitTemplates ==
    /\ messages = <<>>
    /\ safety_alerts = <<>>
    /\ updated_at = 0
    /\ parental_controls = NoControls
    /\ OPENAI_API_KEY = FALSE
    /\ parent_id = NULL
    /\ started = 0
    /\ req = [p \in Procs |-> IdleReq]
    /\ \E content \in ClassifyTexts, parentalControls \in ClassifyRules,
          category \in CategoryStrings :
          probe = [NoProbe EXCEPT !.content = content,
                                  !.parentalControls = parentalControls,
                                  !.category = category]

\* generateSafetyResponse(alertType) for the category drawn
LookUpTemplate ==
    /\ probe.template = NoReply
    /\ probe' = [probe EXCEPT !.template = generateSafetyResponse(probe.category)]
    /\ UNCHANGED <<messages, safety_alerts, updated_at, parental_controls,
                   OPENAI_API_KEY, parent_id, started, req>>

\* aiService.ts lines 42-50: the input is classified and an unsafe input is
\* answered with generateSafetyResponse(safetyCheck.alertType)
AnswerUnsafe ==
    /\ probe.answer = NoReply
    /\ LET safetyCheck == generateResponseInput(probe.content, probe.parentalControls)
       IN  /\ ~safetyCheck.threw
           /\ inputRejected(safetyCheck)
           /\ probe' = [probe EXCEPT !.advanced = safetyCheck,
                                     !.answer = generateSafetyResponse(safetyCheck.alertType)]
    /\ UNCHANGED <<messages, safety_alerts, updated_at, parental_controls,
                   OPENAI_API_KEY, parent_id, started, req>>

NextTemplates == LookUpTemplate \/ AnswerUnsafe

SpecTemplates == InitTemplates /\ [][NextTemplates]_vars

\* ------------------------------------------------------------------------
\* The system prompt on its own: a persona and the rules are drawn and the
\* prompt is built from them twice
\* ------------------------------------------------------------------------
\* the prompt is appended to what an earlier build left behind
buildSystemPrompt_accumulates(customGPT, parentalControls) ==
    LET theologicalValues == parseOr(customGPT.theological_values, NoValues)
        allowedTopics == parseOr(parentalControls.allowed_topics, <<>>)
    IN  IF ~theologicalValues.ok \/ ~allowedTopics.ok THEN PromptThrew
        ELSE Prompt(probe.prompt.lines
                    \o <<customGPT.system_prompt, <<>>,
                         <<"THEOLOGICAL PERSPECTIVE:", parentalControls.theological_perspective>> >>
                    \o valueClauses(theologicalValues.val)
                    \o contentGuidelines
                    \o topicsLine(allowedTopics.val)
                    \o personalityLines(customGPT.personality_traits)
                    \o rememberLines)

\* the personality is rendered ahead of the content guidelines
buildSystemPrompt_personalityFirst(customGPT, parentalControls) ==
    LET theologicalValues == parseOr(customGPT.theological_values, NoValues)
        allowedTopics == parseOr(parentalControls.allowed_topics, <<>>)
    IN  IF ~theologicalValues.ok \/ ~allowedTopics.ok THEN PromptThrew
        ELSE Prompt(<<customGPT.system_prompt, <<>>,
                      <<"THEOLOGICAL PERSPECTIVE:", parentalControls.theological_perspective>> >>
                    \o valueClauses(theologicalValues.val)
                    \o personalityLines(customGPT.personality_traits)
                    \o contentGuidelines
                    \o topicsLine(allowedTopics.val)
                    \o rememberLines)

\* AIService.buildSystemPrompt
buildSystemPrompt(customGPT, parentalControls) ==
    LET theologicalValues == parseOr(customGPT.theological_values, NoValues)
        allowedTopics == parseOr(parentalControls.allowed_topics, <<>>)
    IN  IF ~theologicalValues.ok \/ ~allowedTopics.ok THEN PromptThrew
        ELSE Prompt(<<customGPT.system_prompt, <<>>,
                      <<"THEOLOGICAL PERSPECTIVE:", parentalControls.theological_perspective>> >>
                    \o valueClauses(theologicalValues.val)
                    \o contentGuidelines
                    \o topicsLine(allowedTopics.val)
                    \o personalityLines(customGPT.personality_traits)
                    \o rememberLines)

InitPrompt ==
    /\ messages = <<>>
    /\ safety_alerts = <<>>
    /\ updated_at = 0
    /\ parental_controls = NoControls
    /\ OPENAI_API_KEY = TRUE
    /\ parent_id = NULL
    /\ started = 0
    /\ req = [p \in Procs |-> IdleReq]
    /\ \E customGPT \in Personas, parentalControls \in PromptRules :
          probe = [NoProbe EXCEPT !.customGPT = customGPT,
                                  !.promptRules = parentalControls]

\* aiService.ts line 53: the prompt of a first completion call
BuildPrompt ==
    /\ ~probe.prompt.built
    /\ probe' = [probe EXCEPT !.prompt = buildSystemPrompt(probe.customGPT, probe.promptRules)]
    /\ UNCHANGED <<messages, safety_alerts, updated_at, parental_controls,
                   OPENAI_API_KEY, parent_id, started, req>>

\* aiService.ts line 53: the prompt of the next completion call, built from
\* the same persona and rules
BuildPromptAgain ==
    /\ probe.prompt.built
    /\ ~probe.promptAgain.built
    /\ probe' = [probe EXCEPT !.promptAgain = buildSystemPrompt(probe.customGPT, probe.promptRules)]
    /\ UNCHANGED <<messages, safety_alerts, updated_at, parental_controls,
                   OPENAI_API_KEY, parent_id, started, req>>

NextPrompt == BuildPrompt \/ BuildPromptAgain

SpecPrompt == InitPrompt /\ [][NextPrompt]_vars

\* ------------------------------------------------------------------------
\* The chat client on its own: messages are typed or dictated, the calls
\* to the server succeed or fail in any order
\* ------------------------------------------------------------------------
InitClient ==
    /\ messages = <<>>
    /\ safety_alerts = <<>>
    /\ updated_at = 0
    /\ parental_controls = NoControls
    /\ OPENAI_API_KEY = FALSE
    /\ parent_id = NULL
    /\ started = 0
    /\ req = [p \in Procs |-> IdleReq]
    /\ \E synthesis \in BOOLEAN :
          probe = [NoProbe EXCEPT !.client.synthesis = synthesis]

\* sendMessage lines 173-189: the temporary entry is pushed and the call
\* is issued
sendMessageBegins(client, s, byVoice) ==
    [client EXCEPT !.messages = Append(@, TempEntry(s)),
                   !.sends[s] = InFlight(byVoice)]

\* the next message to submit
NextSend(s) ==
    /\ probe.client.sends[s].state = "none"
    /\ \A t \in Sends : t < s => probe.client.sends[t].state # "none"

\* the submit handler of the chat form, lines 812-821, for a typed message
SubmitTyped(s) ==
    /\ NextSend(s)
    /\ probe' = [probe EXCEPT !.client = sendMessageBegins(@, s, FALSE)]
    /\ UNCHANGED <<messages, safety_alerts, updated_at, parental_controls,
                   OPENAI_API_KEY, parent_id, started, req>>

\* VoiceMode.toggle, lines 1029-1037
Toggle ==
    /\ probe' = [probe EXCEPT
                    !.client.shouldSpeak = IF probe.client.isRecording THEN @ ELSE FALSE,
                    !.client.isRecording = ~@]
    /\ UNCHANGED <<messages, safety_alerts, updated_at, parental_controls,
                   OPENAI_API_KEY, parent_id, started, req>>

\* recognition.onresult and VoiceMode.handleSpeechResult, lines 970-986:
\* the flag is set and the transcript is submitted through the chat form
SpeechResult(s) ==
    /\ probe.client.isRecording
    /\ NextSend(s)
    /\ probe' = [probe EXCEPT
                    !.client = sendMessageBegins([@ EXCEPT !.shouldSpeak = TRUE], s, TRUE)]
    /\ UNCHANGED <<messages, safety_alerts, updated_at, parental_controls,
                   OPENAI_API_KEY, parent_id, started, req>>

\* recognition.onend, lines 916-918: stopRecording
RecognitionEnds ==
    /\ probe.client.isRecording
    /\ probe' = [probe EXCEPT !.client.isRecording = FALSE]
    /\ UNCHANGED <<messages, safety_alerts, updated_at, parental_controls,
                   OPENAI_API_KEY, parent_id, started, req>>

\* sendMessage lines 191-214: the call returned with success
SendSucceeds(s) ==
    /\ probe.client.sends[s].state = "awaiting"
    /\ probe' = [probe EXCEPT
                    !.client.messages = pop(@) \o <<UserEntry(s), AssistantEntry(s)>>,
                    !.client.spoken =
                        IF probe.client.synthesis /\ probe.client.shouldSpeak
                        THEN @ \cup {s} ELSE @,
                    !.client.sends[s].state = "succeeded"]
    /\ UNCHANGED <<messages, safety_alerts, updated_at, parental_controls,
                   OPENAI_API_KEY, parent_id, started, req>>

\* sendMessage lines 215-221: the call threw
SendFails(s) ==
    /\ probe.client.sends[s].state = "awaiting"
    /\ probe' = [probe EXCEPT !.client.messages = pop(@),
                              !.client.sends[s].state = "failed"]
    /\ UNCHANGED <<messages, safety_alerts, updated_at, parental_controls,
                   OPENAI_API_KEY, parent_id, started, req>>

NextClient ==
    \/ Toggle
    \/ RecognitionEnds
    \/ \E s \in Sends : SubmitTyped(s)
    \/ \E s \in Sends : SpeechResult(s)
    \/ \E s \in Sends : SendSucceeds(s)
    \/ \E s \in Sends : SendFails(s)

SpecClient == InitClient /\ [][NextClient]_vars

\* ------------------------------------------------------------------------
\* The history window on its own: rows are written as seconds pass, a
\* request reads the recent history and sends it with its completion call
\* ------------------------------------------------------------------------
InitWindow ==
    /\ messages = <<>>
    /\ safety_alerts = <<>>
    /\ updated_at = 0
    /\ parental_controls = NoControls
    /\ OPENAI_API_KEY = TRUE
    /\ parent_id = NULL
    /\ started = 0
    /\ req = [p \in Procs |-> IdleReq]
    /\ probe = NoProbe

\* a second passes
Tick ==
    /\ probe.window.now < MaxSeconds
    /\ probe' = [probe EXCEPT !.window.now = @ + 1]
    /\ UNCHANGED <<messages, safety_alerts, updated_at, parental_controls,
                   OPENAI_API_KEY, parent_id, started, req>>

\* index.tsx lines 602-619 and createMessage: the next row of the
\* conversation is INSERTed, user and assistant rows in turn
InsertMessage ==
    /\ Len(probe.window.rows) < MaxRows
    /\ LET w == probe.window
           rowid == Len(w.rows) + 1
           role == IF rowid % 2 = 1 THEN "user" ELSE "assistant"
       IN  probe' = [probe EXCEPT
                        !.window.rows = Append(@, MessageRow(rowid, role, w.now))]
    /\ UNCHANGED <<messages, safety_alerts, updated_at, parental_controls,
                   OPENAI_API_KEY, parent_id, started, req>>

\* index.tsx lines 541-545: a request reads the recent history, reverses
\* it and draws the id of the message it handles
ReadHistory ==
    /\ \E ties \in {"ascending", "descending"} :
          probe' = [probe EXCEPT
                       !.window.read = TRUE,
                       !.window.called = FALSE,
                       !.window.sent = <<>>,
                       !.window.handled = Len(probe.window.rows) + 1,
                       !.window.conversationHistory =
                           reverse(selectRecent(probe.window.rows, HistoryLimit, ties))]
    /\ UNCHANGED <<messages, safety_alerts, updated_at, parental_controls,
                   OPENAI_API_KEY, parent_id, started, req>>

\* aiService.ts lines 56-64: the messages of the completion call between
\* the system prompt and the message being handled
SendHistory ==
    /\ probe.window.read
    /\ ~probe.window.called
    /\ probe' = [probe EXCEPT
                    !.window.called = TRUE,
                    !.window.sent = sliceLast(probe.window.conversationHistory,
                                              HistoryLimit)]
    /\ UNCHANGED <<messages, safety_alerts, updated_at, parental_controls,
                   OPENAI_API_KEY, parent_id, started, req>>

NextWindow == Tick \/ InsertMessage \/ ReadHistory \/ SendHistory

SpecWindow == InitWindow /\ [][NextWindow]_vars

\* ------------------------------------------------------------------------
\* Categories and what a text matches
\* ------------------------------------------------------------------------
priority == <<"self_harm", "dangerous_behavior", "blocked_keyword",
              "inappropriate_content">>

\* the text contains one of the decoded blocked keywords, whatever the case
MatchesBlocked(content, parentalControls) ==
    LET bkText == parentalControls.blocked_keywords
    IN  /\ ~bkText.isNull
        /\ bkText.ok
        /\ \E i \in DOMAIN bkText.val :
              includes(toLowerCase(content), toLowerCase(bkText.val[i]))

\* the categories whose rule of AIService.checkAdvancedContentSafety matches
MatchedAdvanced(content, parentalControls) ==
    { c \in {"self_harm"} : \E i \in DOMAIN selfHarmPatterns : test(selfHarmPatterns[i], content) }
    \cup
    { c \in {"dangerous_behavior"} :
        \E i \in DOMAIN dangerousPatterns : test(dangerousPatterns[i], content) }
    \cup
    { c \in {"blocked_keyword"} : MatchesBlocked(content, parentalControls) }
    \cup
    { c \in {"inappropriate_content"} :
        /\ parentalControls.content_filter_level = "strict"
        /\ \E i \in DOMAIN strictPatterns : test(strictPatterns[i], content) }

\* the categories whose rule of checkContentSafety matches
MatchedSimple(content, parentalControls) ==
    { c \in {"self_harm"} :
        \E i \in DOMAIN selfHarmKeywords : includes(toLowerCase(content), selfHarmKeywords[i]) }
    \cup
    { c \in {"dangerous_behavior"} :
        \E i \in DOMAIN dangerKeywords : includes(toLowerCase(content), dangerKeywords[i]) }
    \cup
    { c \in {"blocked_keyword"} : MatchesBlocked(content, parentalControls) }

\* the category of highest priority in a non-empty set of categories
Highest(S) ==
    priority[CHOOSE i \in DOMAIN priority :
                priority[i] \in S /\ \A j \in 1..(i - 1) : priority[j] \notin S]

\* a classification reports exactly the highest category of the set matched
ReportsHighest(result, matched) ==
    IF matched = {}
    THEN result.isSafe
    ELSE ~result.isSafe /\ result.alertType = Highest(matched)

Range(f) == { f[i] : i \in DOMAIN f }

Persisted(id) == \E m \in Range(messages) : m.id = id

RowOf(id) == CHOOSE m \in Range(messages) : m.id = id

\* the reply of the turn is known
Settled(p) == req[p].pc \in {"alert", "saveUser", "saveAi", "touch", "done"}

\* the alert step of the turn is behind it
AlertPassed(p) == req[p].pc \in {"saveUser", "saveAi", "touch", "done"}

\* the write of the user message has returned
UserSaved(p) == req[p].pc \in {"saveAi", "touch", "done"}

\* the write of the assistant message has returned
AiSaved(p) == req[p].pc \in {"touch", "done"}

SafetyTemplates == { responses[c] : c \in DOMAIN responses }

\* the completion call of the turn returned a text
UpstreamText(p) == req[p].outcome.kind = "ok" /\ req[p].outcome.content # <<>>

\* what the output screening says of the text the call returned
OutputCheck(p) ==
    checkAdvancedContentSafety(req[p].outcome.content, req[p].parentalControls)

\* C2: a turn whose input is classified unsafe issues no completion call,
\* with or without a key; its user message is written flagged, with the
\* reason of the classification; its assistant message is written and is
\* the reply answered.
C2_UnsafeSkipsGeneration ==
    \A p \in Procs :
        LET r == req[p] IN
        (Settled(p) /\ ~r.safetyCheck.isSafe) =>
            /\ r.fetchCalls = 0
            /\ r.outcome = NoOutcome
            /\ UserSaved(p) =>
                  /\ Persisted(r.messageId)
                  /\ RowOf(r.messageId).role = "user"
                  /\ RowOf(r.messageId).content = r.content
                  /\ RowOf(r.messageId).is_flagged
                  /\ RowOf(r.messageId).flag_reason = r.safetyCheck.flagReason
            /\ AiSaved(p) =>
                  /\ Persisted(r.aiMessageId)
                  /\ RowOf(r.aiMessageId).role = "assistant"
                  /\ RowOf(r.aiMessageId).content = r.aiResponse
                  /\ r.aiResponse # <<>>
            /\ r.pc = "done" => r.status = 200 /\ r.isFlagged

\* a turn with a key configured and an unsafe input has answered 200
C2_Witness ==
    \E p \in Procs :
        /\ req[p].pc = "done"
        /\ OPENAI_API_KEY
        /\ ~req[p].safetyCheck.isSafe
        /\ req[p].fetchCalls = 0
        /\ Persisted(req[p].messageId) /\ RowOf(req[p].messageId).is_flagged
        /\ Persisted(req[p].aiMessageId)

\* C3: the reply of a turn whose input is classified unsafe is the safety
\* template of the category detected, with or without a key.
C3_ReplyIsCategoryTemplate ==
    \A p \in Procs :
        LET r == req[p] IN
        (Settled(p) /\ ~r.safetyCheck.isSafe) =>
            /\ r.aiResponse = responses[r.safetyCheck.alertType]
            /\ AiSaved(p) => RowOf(r.aiMessageId).content = responses[r.safetyCheck.alertType]

\* C4: for a safe input and a completion call that returned a text, the
\* reply written and answered is a safety template, and not the text
\* returned, when that text matches a rule of the classifier under the
\* teen's rules; it is the text returned when it matches none.
C4_OutputDoubleScreening ==
    \A p \in Procs :
        LET r == req[p] IN
        (Settled(p) /\ r.safetyCheck.isSafe /\ UpstreamText(p)) =>
            /\ IF MatchedAdvanced(r.outcome.content, r.parentalControls) # {}
               THEN r.aiResponse \in SafetyTemplates /\ r.aiResponse # r.outcome.content
               ELSE r.aiResponse = r.outcome.content
            /\ AiSaved(p) =>
                  /\ Persisted(r.aiMessageId)
                  /\ RowOf(r.aiMessageId).content = r.aiResponse

\* a finished turn whose completion text was caught by the output screening
C4_Witness ==
    \E p \in Procs :
        /\ req[p].pc = "done"
        /\ req[p].safetyCheck.isSafe
        /\ UpstreamText(p)
        /\ MatchedAdvanced(req[p].outcome.content, req[p].parentalControls) # {}
        /\ RowOf(req[p].aiMessageId).content \in SafetyTemplates

\* C5: when the output screening finds the text returned unsafe with
\* category c, the reply is the safety template of c.
C5_TemplateOfOutputCategory ==
    \A p \in Procs :
        LET r == req[p] IN
        (Settled(p) /\ r.safetyCheck.isSafe /\ UpstreamText(p) /\ ~OutputCheck(p).isSafe) =>
            r.aiResponse = responses[OutputCheck(p).alertType]

\* C6: for a safe input the user message is written, and answered,
\* unflagged; the assistant message is flagged exactly when the output
\* screening found the reply unsafe.
C6_SafeInputUserTurnUnflagged ==
    \A p \in Procs :
        LET r == req[p] IN
        (UserSaved(p) /\ r.safetyCheck.isSafe) =>
            /\ ~RowOf(r.messageId).is_flagged
            /\ r.pc = "done" => ~r.isFlagged
            /\ AiSaved(p) =>
                  (RowOf(r.aiMessageId).is_flagged
                      <=> (UpstreamText(p) /\ ~OutputCheck(p).isSafe))

\* no request is being handled
Quiescent == \A p \in Procs : ~Busy(p)

\* the alert rows that refer to the message id
AlertsOf(messageId) ==
    { i \in DOMAIN safety_alerts : safety_alerts[i].message_id = messageId }

\* C7: once every turn has ended, turns that aborted on a failed write
\* included, every alert row refers to a written message of its
\* conversation, and that message is flagged.
C7_AlertsReferToPersistedTurns ==
    Quiescent =>
        \A a \in Range(safety_alerts) :
            \E m \in Range(messages) :
                /\ m.id = a.message_id
                /\ m.conversation_id = a.conversation_id
                /\ m.is_flagged

\* C8: once the alert step of a turn is behind it, exactly one alert row
\* refers to the turn's flagged message when the turn is flagged, alerts are
\* enabled in the teen's rules and the teen has a parent; the row carries
\* the category and the reason of the classification, the conversation and
\* the parent.  No row refers to it when the turn is not flagged, alerts are
\* disabled or the teen has no parent, nor before the alert step.
C8_AlertOnlyWhenEnabledAndLinked ==
    \A p \in Procs :
        LET r == req[p]
            due == r.isFlagged /\ r.parentalControls.safety_alerts_enabled
                      /\ parent_id # NULL
        IN  /\ (AlertPassed(p) /\ due) =>
                  /\ Cardinality(AlertsOf(r.messageId)) = 1
                  /\ \A i \in AlertsOf(r.messageId) :
                        /\ safety_alerts[i].alert_type = r.alertType
                        /\ safety_alerts[i].alert_reason = r.flagReason
                        /\ safety_alerts[i].conversation_id = conversationId
                        /\ safety_alerts[i].parent_id = parent_id
                        /\ ~r.safetyCheck.isSafe =>
                              /\ safety_alerts[i].alert_type = r.safetyCheck.alertType
                              /\ safety_alerts[i].alert_reason = r.safetyCheck.flagReason
                  /\ UserSaved(p) => RowOf(r.messageId).is_flagged
            /\ (AlertPassed(p) /\ ~due) => AlertsOf(r.messageId) = {}
            /\ r.pc \in {"generate", "fetch", "alert"} => AlertsOf(r.messageId) = {}

\* a flagged turn has ended with its one alert
C8_Witness ==
    \E p \in Procs :
        /\ req[p].pc = "done"
        /\ req[p].isFlagged
        /\ Cardinality(AlertsOf(req[p].messageId)) = 1
        /\ RowOf(req[p].messageId).is_flagged

\* C9: at most one alert row refers to any message, whatever the
\* interleaving of the requests, and a request writes at most one alert.
C9_AtMostOneAlertPerTurn ==
    /\ \A i, j \in DOMAIN safety_alerts :
          safety_alerts[i].message_id = safety_alerts[j].message_id => i = j
    /\ \A p \in Procs : req[p].alertCalls <= 1

\* two requests in flight at the same time have each written their alert
C9_Witness ==
    /\ Len(safety_alerts) = 2
    /\ \A p \in Procs : Busy(p) /\ req[p].alertCalls = 1

\* C10: no step changes a message row once it is written: not a later
\* turn, not an alert being written or marked read, not the conversation
\* being touched.
C10_TurnsAreImmutable ==
    [][ \A i \in DOMAIN messages :
            i \in DOMAIN messages' /\ messages'[i] = messages[i] ]_vars

\* a flagged message is followed by later rows, its alert has been read and
\* the conversation has been touched
C10_Witness ==
    /\ Len(messages) >= 3
    /\ messages[1].is_flagged
    /\ updated_at > 0
    /\ \E a \in Range(safety_alerts) : a.is_read /\ a.message_id = messages[1].id

\* the completion call of the turn failed: the status was not 2xx, the
\* fetch was rejected or the body could not be read
UpstreamFailed(p) == req[p].outcome.kind = "failed"

\* the completion call of the turn returned a body with no text in it
UpstreamEmpty(p) == req[p].outcome.kind = "ok" /\ req[p].outcome.content = <<>>

\* C11: a turn that ends without a persistence or configuration error
\* answers 200 with a reply that is not empty, whatever the input was
\* classified as, with or without a key, whether the completion call
\* returned a text, failed, or returned an empty or unreadable body; the
\* reply has the message of no upstream error in it, and it is the
\* content of the assistant message written.
C11_ReplyNonEmptyNoRawError ==
    \A p \in Procs :
        LET r == req[p] IN
        /\ Settled(p) => r.aiResponse # <<>>
        /\ r.pc = "done" =>
              /\ r.status = 200
              /\ r.aiResponse # <<>>
              /\ \A o \in Outcomes :
                    o.kind # "ok" => ~includes(r.aiResponse, upstreamError(o))
              /\ Persisted(r.aiMessageId)
              /\ RowOf(r.aiMessageId).content = r.aiResponse

\* two turns have ended: the call of one failed, the call of the other
\* returned an empty body
C11_Witness ==
    \E p, q \in Procs :
        /\ req[p].pc = "done" /\ UpstreamFailed(p)
        /\ req[q].pc = "done" /\ UpstreamEmpty(q)
        /\ req[p].aiResponse # <<>> /\ req[q].aiResponse = apologyText

\* C12: when the completion call of a turn with a safe input fails (status
\* not 2xx, rejected fetch, body that cannot be read or that carries no
\* text), the turn goes on silently: the reply is the text of the local
\* fallback generator for the input, the user message is written
\* unflagged, no alert row refers to it, and the turn answers 200 with
\* both messages written.
C12_FailureFallsBackSilently ==
    \A p \in Procs :
        LET r == req[p] IN
        (Settled(p) /\ r.safetyCheck.isSafe /\ (UpstreamFailed(p) \/ UpstreamEmpty(p))) =>
            /\ r.aiResponse = generateFallbackResponse(r.content)
            /\ ~r.isFlagged
            /\ AlertsOf(r.messageId) = {}
            /\ r.pc = "done" =>
                  /\ r.status = 200
                  /\ Persisted(r.messageId) /\ ~RowOf(r.messageId).is_flagged
                  /\ Persisted(r.aiMessageId)
                  /\ RowOf(r.aiMessageId).content = generateFallbackResponse(r.content)

\* the generator of a turn as far as it has got, read off the handler:
\* Requesting while the call is out, Completed when it returned a body,
\* Failed when it failed or when there is no key to call with, none for an
\* input that was rejected before the generator was asked
GeneratorState(p) ==
    LET r == req[p] IN
    CASE r.pc = "fetch" -> "Requesting"
      [] Settled(p) /\ ~r.safetyCheck.isSafe -> "none"
      [] Settled(p) /\ r.outcome.kind = "ok" -> "Completed"
      [] Settled(p) /\ r.outcome.kind = "failed" -> "Failed"
      [] Settled(p) /\ r.outcome = NoOutcome /\ ~OPENAI_API_KEY -> "Failed"
      [] OTHER -> "Idle"

\* C13: a turn issues at most one completion call, and only with a key
\* and for a safe input; a call that is out is not issued again, it ends
\* in exactly one of Completed and Failed and leaves a reply; nothing leads
\* back to Requesting; and a call that settles always brings the generator
\* to a reply.
C13_GeneratorStateMachine ==
    /\ [](\A p \in Procs :
            LET r == req[p] IN
            /\ r.fetchCalls <= 1
            /\ r.pc = "fetch" =>
                  /\ r.fetchCalls = 1 /\ r.outcome = NoOutcome
                  /\ OPENAI_API_KEY /\ r.safetyCheck.isSafe
            /\ Settled(p) =>
                  /\ r.aiResponse # <<>>
                  /\ r.fetchCalls = (IF OPENAI_API_KEY /\ r.safetyCheck.isSafe THEN 1 ELSE 0)
                  /\ r.fetchCalls = 1 <=> r.outcome.kind \in {"ok", "failed"}
                  /\ r.safetyCheck.isSafe => GeneratorState(p) \in {"Completed", "Failed"})
    /\ [][\A p \in Procs :
            /\ (req[p].pc = "fetch" /\ req'[p] # req[p]) =>
                  /\ GeneratorState(p)' \in {"Completed", "Failed"}
                  /\ req'[p].fetchCalls = req[p].fetchCalls
                  /\ req'[p].aiResponse # <<>>
            /\ (req[p].pc # "fetch" /\ req'[p].pc = "fetch") =>
                  /\ req[p].pc = "generate"
                  /\ req[p].fetchCalls = 0
            /\ (Settled(p) /\ Settled(p)' /\ req'[p].n = req[p].n) =>
                  GeneratorState(p)' = GeneratorState(p)]_vars
    /\ \A p \in Procs :
          (req[p].pc = "fetch") ~> (Settled(p) /\ req[p].aiResponse # <<>>)

\* a turn whose call failed and a turn whose call returned a text have
\* both ended, each after one call
C13_Witness ==
    \E p, q \in Procs :
        /\ req[p].pc = "done" /\ GeneratorState(p) = "Failed" /\ req[p].fetchCalls = 1
        /\ req[q].pc = "done" /\ GeneratorState(q) = "Completed" /\ req[q].fetchCalls = 1

\* the topic a fixed reply of either local generator is about
TopicOf(reply) ==
    CASE reply \in { <<"I'd be happy to help you with your studies!">>,
                     <<"I'd love to help you with your math studies!">> } -> "mathematics"
      [] reply \in { <<"That's a wonderful question about faith!">>,
                     <<"What a wonderful question about faith!">> } -> "faith"
      [] reply = <<"Relationships and friendships are such an important part of life">>
            -> "relationships"
      [] reply = <<"Science is amazing">> -> "science"
      [] reply = <<"I'm here to help! Life can be challenging">> -> "advice"
      [] reply \in { <<"I understand you're looking for guidance.">>,
                     <<"I'm here to help you grow in wisdom and knowledge">> } -> "generic"
      [] OTHER -> "none"

\* C14: when the completion call fails, a safe input text that has
\* "algebra" in it is answered with the mathematics template of the
\* fallback generator.
C14_AlgebraYieldsMathematics ==
    (probe.fallback # NoReply /\ includes(toLowerCase(probe.content), <<"algebra">>)) =>
        TopicOf(probe.fallback) = "mathematics"

\* C15: a safe input text is answered from one keyword table whether there
\* is no key or the completion call failed: the two paths select the
\* template of the same topic, and without a key the text is not flagged.
C15_OneFallbackTable ==
    (probe.fallback # NoReply /\ probe.enhanced # NoReply /\ probe.simple.isSafe) =>
        TopicOf(probe.enhanced) = TopicOf(probe.fallback)

\* the turn of the documented scenario: "violence" is one of the blocked
\* keywords of the teen's rules and the input is "Let's talk about violence
\* in movies"
ScenarioC(p) ==
    /\ req[p].content = <<"Let's", "talk", "about", "violence", "in", "movies">>
    /\ req[p].parentalControls.blocked_keywords.ok
    /\ \E i \in DOMAIN req[p].parentalControls.blocked_keywords.val :
          req[p].parentalControls.blocked_keywords.val[i] = <<"violence">>

\* C16: in that scenario the input is classified unsafe with category
\* blocked_keyword and the reply is the blocked-keyword safety template,
\* with a key and without.
C16_ScenarioCBlockedKeyword ==
    \A p \in Procs :
        (Settled(p) /\ ScenarioC(p)) =>
            /\ ~req[p].safetyCheck.isSafe
            /\ req[p].safetyCheck.alertType = "blocked_keyword"
            /\ req[p].aiResponse = responses.blocked_keyword

\* the keywords of the rules that occur in the text once both are
\* lower-cased
KeywordsIn(content, parentalControls) ==
    { i \in DOMAIN parentalControls.blocked_keywords.val :
        includes(toLowerCase(content),
                 toLowerCase(parentalControls.blocked_keywords.val[i])) }

\* the categories that come before the blocked keywords
HigherThanBlocked == {"self_harm", "dangerous_behavior"}

\* C17: a text that matches no self-harm and no dangerous-behaviour rule
\* is reported blocked_keyword by a classifier exactly when lowercase(text)
\* contains lowercase(k) for some configured keyword k; the reason quotes
\* the first such keyword as it is configured.
C17_BlockedKeywordIgnoresCase ==
    /\ (probe.advanced # NoResult /\ ~probe.advanced.threw
           /\ MatchedAdvanced(probe.content, probe.parentalControls) \cap HigherThanBlocked = {})
          => /\ (probe.advanced.alertType = "blocked_keyword")
                    <=> (KeywordsIn(probe.content, probe.parentalControls) # {})
             /\ probe.advanced.alertType = "blocked_keyword" =>
                  \E i \in KeywordsIn(probe.content, probe.parentalControls) :
                      /\ probe.advanced.flagReason =
                            <<"Blocked keyword detected">>
                               \o probe.parentalControls.blocked_keywords.val[i]
                      /\ \A j \in KeywordsIn(probe.content, probe.parentalControls) : i <= j
    /\ (probe.simple # NoResult /\ ~probe.simple.threw
           /\ MatchedSimple(probe.content, probe.parentalControls) \cap HigherThanBlocked = {})
          => (probe.simple.alertType = "blocked_keyword")
                <=> (KeywordsIn(probe.content, probe.parentalControls) # {})

\* both classifiers have reported blocked_keyword for a text in which the
\* keyword occurs in another case than the one it is configured in
C17_Witness ==
    /\ probe.advanced.alertType = "blocked_keyword"
    /\ probe.simple.alertType = "blocked_keyword"
    /\ KeywordsIn(probe.content, probe.parentalControls) # {}
    /\ \A i \in KeywordsIn(probe.content, probe.parentalControls) :
          ~includes(probe.content, probe.parentalControls.blocked_keywords.val[i])

\* the text matches one of the age-sensitive topic patterns
MatchesStrictTopic(content) ==
    \E i \in DOMAIN strictPatterns : test(strictPatterns[i], content)

\* C18: under the strict filter level, a turn whose input matches an
\* age-sensitive topic pattern and no self-harm pattern, dangerous pattern
\* or blocked keyword has its input classified unsafe with category
\* inappropriate_content and is flagged, with a key and without.
C18_StrictTopicsOnEveryPath ==
    \A p \in Procs :
        LET r == req[p] IN
        (/\ Settled(p)
         /\ r.parentalControls.content_filter_level = "strict"
         /\ MatchedAdvanced(r.content, r.parentalControls) = {"inappropriate_content"}) =>
            /\ ~r.safetyCheck.isSafe
            /\ r.safetyCheck.alertType = "inappropriate_content"
            /\ r.isFlagged

\* C19: checkAdvancedContentSafety applies the age-sensitive topic
\* patterns at the strict level only: under basic or moderate a text that
\* matches one of them and no self-harm pattern, dangerous pattern or
\* blocked keyword is reported safe; and at every level the text is
\* reported safe exactly when no category matches, inappropriate_content
\* exactly when the level is strict and only a topic pattern matches.
C19_StrictOnly ==
    (probe.advanced # NoResult /\ ~probe.advanced.threw) =>
        LET matched == MatchedAdvanced(probe.content, probe.parentalControls)
            level == probe.parentalControls.content_filter_level
        IN  /\ probe.advanced.isSafe <=> (matched = {})
            /\ (/\ level \in {"basic", "moderate"}
                /\ MatchesStrictTopic(probe.content)
                /\ matched \cap (HigherThanBlocked \cup {"blocked_keyword"}) = {})
                  => /\ probe.advanced.isSafe
                     /\ probe.advanced.alertType = NULL
                     /\ probe.advanced.flagReason = NoReason
            /\ (probe.advanced.alertType = "inappropriate_content")
                  <=> (/\ level = "strict"
                       /\ MatchesStrictTopic(probe.content)
                       /\ matched \cap (HigherThanBlocked \cup {"blocked_keyword"}) = {})

\* a text about a girlfriend has been reported safe under the basic level
C19_Witness ==
    /\ probe.advanced # NoResult
    /\ probe.advanced.isSafe
    /\ probe.parentalControls.content_filter_level = "basic"
    /\ includes(toLowerCase(probe.content), <<"girlfriend">>)
    /\ MatchesStrictTopic(probe.content)

\* the handler of the turn is at one of its writes to the store
AtWrite(p) == req[p].pc \in {"alert", "saveUser", "saveAi", "touch"}

\* C20: a turn answers 200 only after its user message, its assistant
\* message and, when an alert is due, its one alert row have been written
\* and the conversation touched; a write that fails (alert, user message,
\* assistant message, touch) ends the turn with status 500, never 200, and
\* the step leaves every row written so far as it is.
C20_SuccessOnlyIfAllPersisted ==
    /\ [](\A p \in Procs :
            LET r == req[p] IN
            /\ r.status = 200 <=> r.pc = "done"
            /\ r.pc = "error" => r.status = 500
            /\ r.pc = "done" =>
                  /\ Persisted(r.messageId)
                  /\ RowOf(r.messageId).role = "user"
                  /\ RowOf(r.messageId).content = r.content
                  /\ Persisted(r.aiMessageId)
                  /\ RowOf(r.aiMessageId).role = "assistant"
                  /\ RowOf(r.aiMessageId).content = r.aiResponse
                  /\ alertDue(r.isFlagged, r.parentalControls) =>
                        Cardinality(AlertsOf(r.messageId)) = 1)
    /\ [][\A p \in Procs :
            /\ (AtWrite(p) /\ req'[p].pc = "error") =>
                  /\ req'[p].status = 500
                  /\ messages' = messages
                  /\ safety_alerts' = safety_alerts
                  /\ updated_at' = updated_at
            /\ (req[p].pc # "done" /\ req'[p].pc = "done") =>
                  /\ req[p].pc = "touch"
                  /\ updated_at' > updated_at]_vars

\* a turn was answered 500 at the write of its assistant message: its
\* alert row and its flagged user message are in the store, its assistant
\* message is not
C20_Witness ==
    \E p \in Procs :
        /\ req[p].pc = "error"
        /\ req[p].status = 500
        /\ Persisted(generateId(req[p].n, 1))
        /\ AlertsOf(generateId(req[p].n, 1)) # {}
        /\ ~Persisted(generateId(req[p].n, 3))

\* the teen has no parental_controls row, or the row's blocked_keywords
\* text cannot be decoded
RulesMissingOrInvalid ==
    \/ ~parental_controls.present
    \/ (~parental_controls.blocked_keywords.isNull /\ ~parental_controls.blocked_keywords.ok)

\* C21: while the teen's rules are missing or cannot be decoded every turn
\* is refused before anything is done: no reply is ever settled on, no
\* completion call is issued, no message row and no alert row is written
\* and no turn answers 200.
C21_InvalidRulesRefuseTheTurn ==
    RulesMissingOrInvalid =>
        /\ messages = <<>>
        /\ safety_alerts = <<>>
        /\ \A p \in Procs :
              /\ ~Settled(p)
              /\ req[p].fetchCalls = 0
              /\ req[p].status # 200

\* C22: the template lookup answers every category string with a safety
\* template: the template of the category for the four known categories,
\* the inappropriate_content template for every other string.
C22_TemplateLookupIsTotal ==
    /\ probe.template # NoReply =>
          /\ probe.template \in SafetyTemplates
          /\ probe.template = (IF probe.category \in DOMAIN responses
                                  THEN responses[probe.category]
                                  ELSE responses.inappropriate_content)
    /\ probe.answer # NoReply => probe.answer = responses[probe.advanced.alertType]


\* ------------------------------------------------------------------------
\* The system prompt
\* ------------------------------------------------------------------------
\* the positions of the lines that begin with a piece of text
LinesWith(lines, tag) ==
    {i \in DOMAIN lines : Len(lines[i]) > 0 /\ lines[i][1] = tag}

\* the flags that buildSystemPrompt looks at, the value each is compared
\* with and the clause it stands for
KnownFlags ==
    { [flag |-> "biblical_authority", value |-> "high",
       clause |-> <<"- You hold the Bible as the ultimate authority for faith and life.">>],
      [flag |-> "creation_vs_evolution", value |-> "young_earth_creationism",
       clause |-> <<"- You believe in young earth creationism and God's direct creation of all things.">>],
      [flag |-> "moral_framework", value |-> "biblical",
       clause |-> <<"- Your moral guidance is rooted in biblical principles and Christ-like character.">>] }

\* the positions of the value clauses
ClausePositions(lines) ==
    {i \in DOMAIN lines : \E k \in KnownFlags : lines[i] = k.clause}

\* the entry of a flag is truthy: present and not the empty string
truthy(theologicalValues, flag) ==
    flag \in DOMAIN theologicalValues /\ theologicalValues[flag] # ""

\* both columns of the inputs of the build decode
PromptInputsDecode ==
    /\ parseOr(probe.customGPT.theological_values, NoValues).ok
    /\ parseOr(probe.promptRules.allowed_topics, <<>>).ok

C24_SectionsInFixedOrder ==
    (probe.prompt.built /\ ~probe.prompt.threw) =>
        LET lines == probe.prompt.lines
            topics == parseOr(probe.promptRules.allowed_topics, <<>>).val
            b == LinesWith(lines, "THEOLOGICAL PERSPECTIVE:")
            c == ClausePositions(lines)
            d == LinesWith(lines, "CONTENT GUIDELINES:")
            e == LinesWith(lines, "- Focus on these approved topics:")
            f == LinesWith(lines, "PERSONALITY: Be")
        IN  /\ lines[1] = probe.customGPT.system_prompt
            /\ Cardinality(b) = 1 /\ Cardinality(d) = 1 /\ Cardinality(f) = 1
            /\ \A i \in b :
                  /\ i > 1
                  /\ lines[i] = <<"THEOLOGICAL PERSPECTIVE:",
                                  probe.promptRules.theological_perspective>>
            /\ \A i \in b, j \in c : i < j
            /\ \A j \in c, k \in d : j < k
            /\ \A i \in b, k \in d : i < k
            /\ \A k \in d : SubSeq(lines, k - 1, k + 5) = contentGuidelines
            /\ (e # {}) <=> (Len(topics) > 0)
            /\ Cardinality(e) <= 1
            /\ \A k \in d, m \in e :
                  /\ k + 5 < m
                  /\ lines[m] = <<"- Focus on these approved topics:">> \o join(topics)
            /\ \A m \in e, n \in f : m < n
            /\ \A k \in d, n \in f : k + 5 < n
            /\ \A n \in f :
                  lines[n] = <<"PERSONALITY: Be">>
                             \o join(split(probe.customGPT.personality_traits))
                             \o <<"in all interactions.">>

C24_Witness ==
    /\ probe.prompt.built
    /\ ~probe.prompt.threw
    /\ Cardinality(ClausePositions(probe.prompt.lines)) = 3
    /\ \E m \in LinesWith(probe.prompt.lines, "- Focus on these approved topics:") :
          probe.prompt.lines[m] = <<"- Focus on these approved topics:", "bible-study",
                                    ", ", "school-help", ", ", "life-advice">>
    /\ \E n \in LinesWith(probe.prompt.lines, "PERSONALITY: Be") :
          probe.prompt.lines[n] = <<"PERSONALITY: Be", "encouraging", ", ", "wise", ", ",
                                    "patient", ", ", "christ_centered",
                                    "in all interactions.">>

\* C25: from inputs that decode the build does not fail, and it emits the
\* clause of a known flag exactly once when the entry of the flag equals
\* the value the flag is compared with, and not at all otherwise; flags it
\* does not know emit nothing.  The number of clauses is the number of
\* known flags that hold their compared value.
C25_ClausePerFlagAtItsValue ==
    (probe.prompt.built /\ PromptInputsDecode) =>
        LET lines == probe.prompt.lines
            values == parseOr(probe.customGPT.theological_values, NoValues).val
        IN  /\ ~probe.prompt.threw
            /\ \A k \in KnownFlags :
                  Cardinality({i \in DOMAIN lines : lines[i] = k.clause})
                      = IF flagIs(values, k.flag, k.value) THEN 1 ELSE 0
            /\ Cardinality(ClausePositions(lines))
                  = Cardinality({k \in KnownFlags : flagIs(values, k.flag, k.value)})
            /\ \A i \in DOMAIN lines :
                  Len(lines[i]) > 0 /\ lines[i][1] \notin {"- Focus on these approved topics:"}
                      /\ i > 1 /\ i \notin LinesWith(lines, "THEOLOGICAL PERSPECTIVE:")
                      /\ i \notin LinesWith(lines, "PERSONALITY: Be")
                  => lines[i] \in {k.clause : k \in KnownFlags}
                        \cup {contentGuidelines[j] : j \in DOMAIN contentGuidelines}
                        \cup {rememberLines[j] : j \in DOMAIN rememberLines}

\* a known flag holds a truthy value other than the one it is compared with,
\* next to flags that hold theirs, and the prompt is built
C25_Witness ==
    /\ probe.prompt.built
    /\ ~probe.prompt.threw
    /\ LET values == parseOr(probe.customGPT.theological_values, NoValues).val
       IN  /\ truthy(values, "biblical_authority")
           /\ ~flagIs(values, "biblical_authority", "high")
           /\ flagIs(values, "moral_framework", "biblical")
    /\ Cardinality(ClausePositions(probe.prompt.lines)) = 1

\* C25 as stated: the number of clauses is the number of known flags whose
\* entry is truthy, whatever the truthy value is.
C25_ClausePerTruthyFlag ==
    (probe.prompt.built /\ PromptInputsDecode) =>
        LET lines == probe.prompt.lines
            values == parseOr(probe.customGPT.theological_values, NoValues).val
        IN  /\ ~probe.prompt.threw
            /\ Cardinality(ClausePositions(lines))
                  = Cardinality({k \in KnownFlags : truthy(values, k.flag)})


\* ------------------------------------------------------------------------
\* The chat client
\* ------------------------------------------------------------------------
\* no sendMessage call is awaiting its answer
AllSettled == \A s \in Sends : probe.client.sends[s].state # "awaiting"

\* the sends that succeeded
Succeeded == {s \in Sends : probe.client.sends[s].state = "succeeded"}

\* C26: a reply is passed to speech synthesis only when its message was
\* submitted by voice input; the reply to a typed message is never spoken.
C26_OnlyVoiceRepliesSpoken ==
    \A s \in probe.client.spoken : probe.client.sends[s].byVoice

\* C30: once every sendMessage call has settled, the local message list
\* holds no temporary entry and is made of the confirmed user and assistant
\* entries of the successful sends, each pair adjacent and in order.
C30_SettledListIsConfirmedPairs ==
    AllSettled =>
        LET list == probe.client.messages
        IN  /\ \A i \in DOMAIN list : ~list[i].temporary
            /\ Len(list) = 2 * Cardinality(Succeeded)
            /\ \A s \in Succeeded :
                  \E i \in 1..(Len(list) - 1) :
                     list[i] = UserEntry(s) /\ list[i + 1] = AssistantEntry(s)


\* ------------------------------------------------------------------------
\* Concurrent turns
\* ------------------------------------------------------------------------
\* the positions of the rows of the messages table with an id
RowsWithId(id) == {i \in DOMAIN messages : messages[i].id = id}

\* the request in slot p was answered with success
Succeeds(p) == req[p].pc = "done" /\ req[p].status = 200

\* C27: with two requests on the same conversation interleaved in any
\* order, a request that is answered with success has written exactly one
\* user row and one assistant row of its own, with its own content and
\* reply, the user row before the assistant row, no row of the table
\* shares an id with another, and the alert it wrote names its own user
\* message.
C27_ConcurrentTurnsKeepTheirRows ==
    /\ \A i, j \in DOMAIN messages : messages[i].id = messages[j].id => i = j
    /\ \A p \in Procs :
          Succeeds(p) =>
             LET r == req[p] IN
             /\ \E i, j \in DOMAIN messages :
                   /\ RowsWithId(r.messageId) = {i}
                   /\ RowsWithId(r.aiMessageId) = {j}
                   /\ i < j
                   /\ messages[i].role = "user"
                   /\ messages[i].content = r.content
                   /\ messages[j].role = "assistant"
                   /\ messages[j].content = r.aiResponse
             /\ r.alertCalls > 0 =>
                   /\ Cardinality({a \in DOMAIN safety_alerts :
                                      safety_alerts[a].id = r.alertId}) = 1
                   /\ \A a \in DOMAIN safety_alerts :
                         safety_alerts[a].id = r.alertId
                            => safety_alerts[a].message_id = r.messageId

\* both requests ran at the same time and succeeded, their rows interleaved,
\* and one of them wrote an alert
C27_Witness ==
    /\ \A p \in Procs : Succeeds(p)
    /\ req[1].n # req[2].n
    /\ Len(messages) = 4
    /\ messages[1].role = "user" /\ messages[2].role = "user"
    /\ messages[3].id = req[2].aiMessageId
    /\ messages[4].id = req[1].aiMessageId
    /\ \E p \in Procs : req[p].alertCalls > 0


\* ------------------------------------------------------------------------
\* The history window
\* ------------------------------------------------------------------------
\* the rows that were stored when the history was read
StoredAtRead == 1..(probe.window.handled - 1)

\* C28: the history sent with a completion call holds at most 10 rows,
\* they are the most recent rows stored when the history was read, in the
\* order they were written, oldest first, and the message being handled is
\* not among them.
C28_WindowBoundedAndOrdered ==
    probe.window.called =>
        LET sent == probe.window.sent
            stored == Cardinality(StoredAtRead)
        IN  /\ Len(sent) <= HistoryLimit
            /\ Len(sent) = IF stored < HistoryLimit THEN stored ELSE HistoryLimit
            /\ \A k \in DOMAIN sent :
                  /\ sent[k].rowid \in StoredAtRead
                  /\ sent[k].rowid > stored - HistoryLimit
                  /\ sent[k].rowid # probe.window.handled
            /\ \A k \in 1..(Len(sent) - 1) : sent[k].rowid < sent[k + 1].rowid


\* C29: for every text and every parental_controls row the two classifiers
\* agree: checkContentSafety and checkAdvancedContentSafety report the same
\* safe / unsafe verdict and the same category.
C29_ClassifiersAgree ==
    (probe.advanced # NoResult /\ probe.simple # NoResult) =>
        /\ probe.advanced.threw = probe.simple.threw
        /\ probe.advanced.isSafe = probe.simple.isSafe
        /\ probe.advanced.alertType = probe.simple.alertType

====
